---- MODULE Spec2Model ----
(***************************************************************************)
(* Day 6 of aoc2015 (src/src/ex06.rs): the instruction parser              *)
(* (EX06_REGEX, ParserIterator), the packed light grid (Grid::new,         *)
(* Grid::update, Grid::count) and the driver a(input).                     *)
(*                                                                         *)
(* A u128 word is the set of its set bit positions (bit 0 = least          *)
(* significant); the Vec<u128> is a function from 0..len-1 to words.       *)
(* usize is UsizeBits wide; the only usize operation whose operands reach  *)
(* the top of the range in this model is the parser's "+ 1", and it        *)
(* overflows as the build profile decides (debug: panic, release: wrap).   *)
(* Products (width * height, y * width) stay far below the top of the      *)
(* range for every input the model draws.                                  *)
(***************************************************************************)
EXTENDS Integers, Sequences, FiniteSets, TLC

VARIABLES
    build,      \* "debug" | "release": the profile the crate was built with
    grid,       \* Grid.grid: the word storage, a function on 0..len-1
    width,      \* Grid.width: words per row
    height,     \* Grid.height
    gstate,     \* "none" | "live" | "failed" (Grid::new panicked) | "panicked" (update panicked)
    logicalW,   \* the width argument Grid::new was called with
    logicalH,   \* the height argument Grid::new was called with
    call,       \* the last Grid call and its arguments
    prevGrid,   \* the storage before the last update call
    ref,        \* per-cell reference: the lit cells of the logical grid
    nUpdates,   \* update calls made so far
    input,      \* the lines input.lines() yields
    recs,       \* what each line was written from
    pos,        \* lines consumed by ParserIterator
    items,      \* items ParserIterator::next has yielded
    pstate,     \* "ready" | "panicked" | "exhausted" (next returned None)
    pc,         \* the driver's position
    applied,    \* line numbers whose instruction the driver passed to update
    result      \* a()'s return value, -1 while there is none

vars == <<build, grid, width, height, gstate, logicalW, logicalH, call, prevGrid, ref,
          nUpdates, input, recs, pos, items, pstate, pc, applied, result>>

gridVars == <<grid, width, height, gstate, logicalW, logicalH, call, prevGrid,
              ref, nUpdates>>
parserVars == <<input, recs, pos, items, pstate>>
driverVars == <<pc, applied, result>>

\* ------------------------------------------------------------------ bounds

\* The width of usize in the model (64 on the targets the crate builds for).
UsizeBits == 16
\* Update calls per run of the grid specification.
MaxUpdates == 2
\* Lines per input of the parser and driver specifications.
MaxLines == 2

\* --------------------------------------------------------------- constants

\* Bits per storage word (u128).
BITS == 128
\* The dimensions a() builds its grid with.
DriverWidth == 1000
DriverHeight == 1000

UsizeMax == 2 ^ UsizeBits - 1

Builds == {"debug", "release"}

\* ------------------------------------------------------------------- words

max(a, b) == IF a >= b THEN a ELSE b
min(a, b) == IF a <= b THEN a ELSE b

SetMax(S) == CHOOSE m \in S : \A n \in S : n <= m
SetMin(S) == CHOOSE m \in S : \A n \in S : m <= n

WordBits == 0 .. (BITS - 1)

\* 1u128 << k, for k < 128.
Shl1(k) == {k}

\* The borrow into bit i of a - b: the low i bits of a are less than those of b,
\* i.e. the highest bit below i in which they differ is set in b.
Borrow(a, b, i) ==
    LET D == {j \in (a \cup b) \ (a \cap b) : j < i}
    IN  D # {} /\ SetMax(D) \in b

\* u128::wrapping_sub(a, b): a - b modulo 2^128, bit by bit.
wrapping_sub(a, b) ==
    {i \in WordBits : ((i \in a) # (i \in b)) # Borrow(a, b, i)}

\* bitfield.count_ones()
count_ones(w) == Cardinality(w)

\* The three match arms of update on one bitfield.
ApplyOp(op, bitfield, mask) ==
    CASE op = "On"     -> bitfield \cup mask
      [] op = "Off"    -> bitfield \cap (WordBits \ mask)
      [] op = "Toggle" -> (bitfield \ mask) \cup (mask \ bitfield)

Ops == {"On", "Off", "Toggle"}

\* ---------------------------------------------------------------- the grid

\* vec![0; n]
ZeroVec(n) == [i \in 0 .. (n - 1) |-> {}]

VecLen(g) == Cardinality(DOMAIN g)

\* Grid::new with the word width computed as width / 128 + 1: a word too many
\* per row when the width is a multiple of 128.
GridNewExtraWord(w, h) ==
    IF ~(w > 0 /\ h > 0)
    THEN [ok |-> FALSE, grid |-> ZeroVec(0), width |-> 0, height |-> 0]
    ELSE LET ww == w \div BITS + 1
         IN  [ok |-> TRUE, grid |-> ZeroVec(ww * h), width |-> ww, height |-> h]

\* Grid::new: the assertion, then the word width and the zeroed storage.
GridNew(w, h) ==
    IF ~(w > 0 /\ h > 0)
    THEN [ok |-> FALSE, grid |-> ZeroVec(0), width |-> 0, height |-> 0]
    ELSE LET ww == (w - 1) \div BITS + 1
         IN  [ok |-> TRUE, grid |-> ZeroVec(ww * h), width |-> ww, height |-> h]

\* The mask update builds for word column x_index.
Mask(x1, x2, x_index) ==
    LET start_bit == IF x1 < x_index * BITS THEN 0 ELSE x1 - x_index * BITS
        end_bit   == x2 - x_index * BITS
        start_val == Shl1(start_bit)
        end_val   == IF end_bit < BITS THEN Shl1(end_bit) ELSE {}
    IN  wrapping_sub(end_val, start_val)

\* The word columns update's outer loop visits: start_x_index ..= end_x_index.
XRange(ww, x1, x2) ==
    LET start_x_index == max(0, x1 \div BITS)
        end_x_index   == min(ww, x2 \div BITS)
    IN  start_x_index .. end_x_index

\* The row offsets its inner loop visits: (start_y_index..end_y_index).step_by(width).
YRange(ww, hh, y1, y2) ==
    LET start_y_index == max(0, y1) * ww
        end_y_index   == min(hh, y2) * ww
    IN  {y \in start_y_index .. (end_y_index - 1) : (y - start_y_index) % ww = 0}

\* Every (x_index, y_index) the loops reach, were no access to panic.
Accesses(ww, hh, x1, y1, x2, y2) ==
    IF x1 >= x2 \/ y1 >= y2 THEN {}
    ELSE XRange(ww, x1, x2) \X YRange(ww, hh, y1, y2)

\* Loop order: x_index outer, y_index inner.
Before(a, b) == a[1] < b[1] \/ (a[1] = b[1] /\ a[2] < b[2])

\* The accesses whose index y_index + x_index is outside the storage.
OutOfBounds(g, ww, hh, x1, y1, x2, y2) ==
    {a \in Accesses(ww, hh, x1, y1, x2, y2) : a[1] + a[2] >= VecLen(g)}

\* The masks applied to one word, in loop order.
RECURSIVE ApplyAll(_, _, _, _, _)
ApplyAll(op, bitfield, xs, x1, x2) ==
    IF xs = {} THEN bitfield
    ELSE LET x_index == SetMin(xs)
         IN  ApplyAll(op, ApplyOp(op, bitfield, Mask(x1, x2, x_index)),
                      xs \ {x_index}, x1, x2)

\* Grid::update: the storage it leaves and whether an index panicked.  The
\* loops stop at the first access outside the storage; every access before it
\* in loop order has been made.
GridUpdate(g, ww, hh, op, x1, y1, x2, y2) ==
    LET acc   == Accesses(ww, hh, x1, y1, x2, y2)
        oob   == OutOfBounds(g, ww, hh, x1, y1, x2, y2)
        done(a) == \A b \in oob : Before(a, b)
        yr    == IF acc = {} THEN {} ELSE YRange(ww, hh, y1, y2)
        xr    == IF acc = {} THEN {} ELSE XRange(ww, x1, x2)
        hits(i) == {x \in xr : (i - x) \in yr /\ done(<<x, i - x>>)}
    IN  [grid |-> [i \in DOMAIN g |-> ApplyAll(op, g[i], hits(i), x1, x2)],
         panicked |-> oob # {}]

\* Grid::count: the sum of count_ones over the words lo..hi of the storage.
RECURSIVE SumOnes(_, _, _)
SumOnes(g, lo, hi) ==
    IF lo > hi THEN 0
    ELSE IF lo = hi THEN count_ones(g[lo])
    ELSE LET mid == (lo + hi) \div 2
         IN  SumOnes(g, lo, mid) + SumOnes(g, mid + 1, hi)

GridCount(g) == SumOnes(g, 0, VecLen(g) - 1)

\* ------------------------------------------------- the grid's specification

NoCall == [fn |-> "none", op |-> "On", x1 |-> 0, y1 |-> 0, x2 |-> 0, y2 |-> 0]

\* The dimensions Grid::new is called with: a zero width, a zero height, less
\* than a word, exactly one word, and two words of which the last is partial.
Dims == {<<0, 2>>, <<5, 0>>, <<100, 2>>, <<128, 2>>, <<200, 2>>}

\* The rectangles <<x1, y1, x2, y2>> of the update calls: inside one word;
\* across a word boundary on every row; up to a word boundary on the last row;
\* a full row of the widest grid; a second word only; past the last row; below
\* the grid; empty in x; empty in y; inside one word past a width of 100.
Rects == {<<0, 0, 5, 1>>, <<120, 0, 140, 2>>, <<0, 1, 128, 2>>, <<0, 0, 200, 1>>,
          <<128, 0, 140, 1>>, <<0, 1, 5, 5>>, <<0, 3, 5, 5>>, <<140, 0, 120, 2>>,
          <<0, 1, 5, 1>>, <<90, 0, 110, 1>>}

\* The cells of the logical w x h grid inside [x1,x2) x [y1,y2).
RectCells(w, h, x1, y1, x2, y2) ==
    {c \in (0 .. (w - 1)) \X (0 .. (h - 1)) :
        x1 <= c[1] /\ c[1] < x2 /\ y1 <= c[2] /\ c[2] < y2}

\* The per-cell reference of one update: op on the rectangle's in-grid cells.
RefUpdate(lit, w, h, op, x1, y1, x2, y2) ==
    LET r == RectCells(w, h, x1, y1, x2, y2)
    IN  CASE op = "On"     -> lit \cup r
          [] op = "Off"    -> lit \ r
          [] op = "Toggle" -> (lit \ r) \cup (r \ lit)

ParserIdle ==
    /\ input = <<>> /\ recs = <<>> /\ pos = 0 /\ items = <<>> /\ pstate = "ready"

DriverIdle ==
    /\ pc = "idle" /\ applied = <<>> /\ result = -1

NoGrid ==
    /\ grid = ZeroVec(0) /\ width = 0 /\ height = 0 /\ gstate = "none"
    /\ logicalW = 0 /\ logicalH = 0 /\ call = NoCall /\ prevGrid = ZeroVec(0) /\ ref = {}
    /\ nUpdates = 0

\* No Grid operation reads the build profile: the grid's runs fix it.
Init ==
    /\ build = "debug"
    /\ NoGrid /\ ParserIdle /\ DriverIdle

\* Grid::new(w, h)
New(w, h) ==
    /\ gstate = "none"
    /\ LET g == GridNew(w, h)
       IN  /\ grid' = g.grid
           /\ width' = g.width
           /\ height' = g.height
           /\ gstate' = IF g.ok THEN "live" ELSE "failed"
           /\ prevGrid' = g.grid
    /\ logicalW' = w
    /\ logicalH' = h
    /\ call' = [NoCall EXCEPT !.fn = "new", !.x2 = w, !.y2 = h]
    /\ ref' = {}
    /\ UNCHANGED <<build, nUpdates, parserVars, driverVars>>

\* grid.update(op, x1, y1, x2, y2)
Update(op, x1, y1, x2, y2) ==
    /\ gstate = "live"
    /\ nUpdates < MaxUpdates
    /\ LET u == GridUpdate(grid, width, height, op, x1, y1, x2, y2)
       IN  /\ grid' = u.grid
           /\ gstate' = IF u.panicked THEN "panicked" ELSE "live"
    /\ prevGrid' = grid
    /\ call' = [fn |-> "update", op |-> op, x1 |-> x1, y1 |-> y1, x2 |-> x2, y2 |-> y2]
    /\ ref' = RefUpdate(ref, logicalW, logicalH, op, x1, y1, x2, y2)
    /\ nUpdates' = nUpdates + 1
    /\ UNCHANGED <<build, width, height, logicalW, logicalH, parserVars, driverVars>>

Next ==
    \/ \E d \in Dims : New(d[1], d[2])
    \/ \E op \in Ops, r \in Rects : Update(op, r[1], r[2], r[3], r[4])

Spec == Init /\ [][Next]_vars

\* -------------------------------------------------------------- the parser

\* A line is a sequence of characters, each a one-character string.  U+0663 is
\* ARABIC-INDIC DIGIT THREE, written by its code point: a decimal digit to
\* the regex (\d is Unicode-aware) and not to str::parse.
AsciiDigits == <<"0", "1", "2", "3", "4", "5", "6", "7", "8", "9">>
ArabicThree == "U+0663"

IsAsciiDigit(c) == \E d \in 1 .. 10 : AsciiDigits[d] = c
DigitVal(c) == (CHOOSE d \in 1 .. 10 : AsciiDigits[d] = c) - 1

\* \d of EX06_REGEX
IsRegexDigit(c) == IsAsciiDigit(c) \/ c = ArabicThree

TurnOn == <<"t", "u", "r", "n", " ", "o", "n">>
TurnOff == <<"t", "u", "r", "n", " ", "o", "f", "f">>
Toggle == <<"t", "o", "g", "g", "l", "e">>
Through == <<" ", "t", "h", "r", "o", "u", "g", "h", " ">>

\* The alternatives of the first capture group, in the regex's order.
OpAlternatives == <<TurnOn, TurnOff, Toggle>>

MatchAt(line, p, lit) ==
    /\ p + Len(lit) - 1 <= Len(line)
    /\ SubSeq(line, p, p + Len(lit) - 1) = lit

\* Where the run of \d characters starting at p ends (one past its last).
DigitRunEnd(line, p) ==
    LET stop == {i \in p .. Len(line) : ~IsRegexDigit(line[i])}
    IN  IF stop = {} THEN Len(line) + 1 ELSE SetMin(stop)

\* " (\d+),(\d+) through (\d+),(\d+)$" from position p on: the four captures.
MatchCoords(line, p) ==
    LET b1 == p + 1
        e1 == DigitRunEnd(line, b1)
        b2 == e1 + 1
        e2 == DigitRunEnd(line, b2)
        b3 == e2 + Len(Through)
        e3 == DigitRunEnd(line, b3)
        b4 == e3 + 1
        e4 == DigitRunEnd(line, b4)
        ok == /\ MatchAt(line, p, <<" ">>)  /\ e1 > b1
              /\ MatchAt(line, e1, <<",">>) /\ e2 > b2
              /\ MatchAt(line, e2, Through) /\ e3 > b3
              /\ MatchAt(line, e3, <<",">>) /\ e4 > b4
              /\ e4 = Len(line) + 1
    IN  IF ok
        THEN [ok |-> TRUE,
              parts |-> <<SubSeq(line, b1, e1 - 1), SubSeq(line, b2, e2 - 1),
                          SubSeq(line, b3, e3 - 1), SubSeq(line, b4, e4 - 1)>>]
        ELSE [ok |-> FALSE, parts |-> <<>>]

\* EX06_REGEX.captures(line): the five groups, or no match.
Captures(line) ==
    LET alts == {k \in 1 .. Len(OpAlternatives) :
                    /\ MatchAt(line, 1, OpAlternatives[k])
                    /\ MatchCoords(line, Len(OpAlternatives[k]) + 1).ok}
    IN  IF alts = {} THEN [ok |-> FALSE, parts |-> <<>>]
        ELSE LET op == OpAlternatives[SetMin(alts)]
             IN  [ok |-> TRUE,
                  parts |-> <<op>> \o MatchCoords(line, Len(op) + 1).parts]

\* str::parse::<usize>: digit by digit, failing on a character that is not an
\* ASCII digit and on a value past usize::MAX.
RECURSIVE ParseFrom(_, _, _)
ParseFrom(digits, i, acc) ==
    IF i > Len(digits) THEN [ok |-> TRUE, val |-> acc]
    ELSE IF ~IsAsciiDigit(digits[i]) THEN [ok |-> FALSE, val |-> 0]
    ELSE IF acc * 10 + DigitVal(digits[i]) > UsizeMax THEN [ok |-> FALSE, val |-> 0]
    ELSE ParseFrom(digits, i + 1, acc * 10 + DigitVal(digits[i]))

\* str::parse with the accumulator never multiplied by 10: the digits' sum.
RECURSIVE DigitSumFrom(_, _, _)
DigitSumFrom(digits, i, acc) ==
    IF i > Len(digits) THEN [ok |-> TRUE, val |-> acc]
    ELSE IF ~IsAsciiDigit(digits[i]) THEN [ok |-> FALSE, val |-> 0]
    ELSE DigitSumFrom(digits, i + 1, acc + DigitVal(digits[i]))

ParseUsizeDigitSum(digits) ==
    IF Len(digits) = 0 THEN [ok |-> FALSE, val |-> 0] ELSE DigitSumFrom(digits, 1, 0)

ParseUsize(digits) ==
    IF Len(digits) = 0 THEN [ok |-> FALSE, val |-> 0] ELSE ParseFrom(digits, 1, 0)

\* The end coordinate stored as parsed, the "+ 1" left out.
AddOneLeftOut(v) == [ok |-> TRUE, val |-> v]

\* usize "+ 1": past usize::MAX a debug build panics and a release build wraps.
AddOne(v) ==
    IF v < UsizeMax THEN [ok |-> TRUE, val |-> v + 1]
    ELSE IF build = "debug" THEN [ok |-> FALSE, val |-> 0]
    ELSE [ok |-> TRUE, val |-> 0]

\* The body of ParserIterator::next for one line: the item, or a panic.
ParseLine(line) ==
    LET caps == Captures(line)
        x1 == ParseUsize(caps.parts[2])
        y1 == ParseUsize(caps.parts[3])
        x2 == ParseUsize(caps.parts[4])
        y2 == ParseUsize(caps.parts[5])
        x2e == AddOne(x2.val)
        y2e == AddOne(y2.val)
    IN  IF ~caps.ok THEN [ok |-> FALSE, item |-> <<>>]
        ELSE IF ~(x1.ok /\ y1.ok /\ x2.ok /\ y2.ok) THEN [ok |-> FALSE, item |-> <<>>]
        ELSE IF ~(x2e.ok /\ y2e.ok) THEN [ok |-> FALSE, item |-> <<>>]
        ELSE [ok |-> TRUE, item |-> <<caps.parts[1], x1.val, y1.val, x2e.val, y2e.val>>]

\* ----------------------------------------------------- the parser's inputs

\* The decimal digits of n.
RECURSIVE Decimal(_)
Decimal(n) ==
    IF n < 10 THEN <<AsciiDigits[n + 1]>>
    ELSE Decimal(n \div 10) \o <<AsciiDigits[(n % 10) + 1]>>

TurnUp == <<"t", "u", "r", "n", " ", "u", "p">>

\* The line a record is written as.  form: "plain"; "zeros" (coordinates with
\* leading zeros); "arabic" (x1 written with an Arabic-Indic digit);
\* "nothrough" (the keyword left out); "trailing" (a character after y2).
Render(r) ==
    LET num(n) == IF r.form = "zeros" THEN <<"0", "0">> \o Decimal(n) ELSE Decimal(n)
        first  == IF r.form = "arabic" THEN <<ArabicThree>> ELSE num(r.x1)
        sep    == IF r.form = "nothrough" THEN <<" ">> ELSE Through
        tail   == IF r.form = "trailing" THEN <<"x">> ELSE <<>>
    IN  r.op \o <<" ">> \o first \o <<",">> \o num(r.y1) \o sep
             \o num(r.x2) \o <<",">> \o num(r.y2) \o tail

Rec(op, x1, y1, x2, y2, form) ==
    [op |-> op, x1 |-> x1, y1 |-> y1, x2 |-> x2, y2 |-> y2, form |-> form]

\* The record's line is of the textual grammar
\* "<op> <x1>,<y1> through <x2>,<y2>" with base-10 coordinates.
InGrammar(r) ==
    /\ r.op \in {TurnOn, TurnOff, Toggle}
    /\ r.form \in {"plain", "zeros"}

\* Every coordinate of the record fits usize, and so does each end plus 1.
Representable(r) ==
    /\ r.x1 <= UsizeMax /\ r.y1 <= UsizeMax
    /\ r.x2 < UsizeMax /\ r.y2 < UsizeMax

ParserRecs ==
    { Rec(TurnOn, 0, 0, 1, 1, "plain"),
      Rec(TurnOff, 3, 3, 3, 3, "plain"),
      Rec(Toggle, 5, 7, 2, 9, "plain"),
      Rec(Toggle, 7, 0, 10, 1, "zeros"),
      Rec(TurnOn, 5, 0, UsizeMax - 1, 0, "plain"),
      Rec(TurnOn, 5, 0, UsizeMax, 0, "plain"),
      Rec(TurnOff, 0, 0, 0, UsizeMax + 1, "plain"),
      Rec(TurnUp, 0, 0, 1, 1, "plain"),
      Rec(TurnOn, 3, 0, 4, 1, "arabic"),
      Rec(TurnOn, 0, 0, 1, 1, "nothrough"),
      Rec(Toggle, 0, 0, 1, 1, "trailing") }

\* Inputs of up to MaxLines lines, each written from one of rs.
InputsFrom(rs) == UNION {[1 .. n -> rs] : n \in 0 .. MaxLines}

ParserInit ==
    /\ build \in Builds
    /\ NoGrid /\ DriverIdle
    /\ recs \in InputsFrom(ParserRecs)
    /\ input = [k \in 1 .. Len(recs) |-> Render(recs[k])]
    /\ pos = 0 /\ items = <<>> /\ pstate = "ready"

\* ParserIterator::next: None after the last line, else the next line's item
\* or a panic.
ParserAdvance ==
    /\ pstate = "ready"
    /\ IF pos = Len(input)
       THEN /\ pstate' = "exhausted"
            /\ UNCHANGED <<pos, items>>
       ELSE LET p == ParseLine(input[pos + 1])
            IN  /\ pos' = pos + 1
                /\ pstate' = IF p.ok THEN "ready" ELSE "panicked"
                /\ items' = IF p.ok THEN Append(items, p.item) ELSE items

ParserNext ==
    /\ ParserAdvance
    /\ UNCHANGED <<build, gridVars, input, recs, driverVars>>

ParserSpec == ParserInit /\ [][ParserNext]_vars

\* -------------------------------------------------------------- the driver

\* The lines of the driver's inputs: the corner of the grid, its last row, a
\* 2 x 2 block, the last row's columns 1000..1023, a misspelt operation and a
\* missing keyword.
DriverRecs ==
    { Rec(TurnOn, 0, 0, 1, 1, "plain"),
      Rec(Toggle, 0, 999, 999, 999, "plain"),
      Rec(TurnOff, 499, 499, 500, 500, "plain"),
      Rec(TurnOn, 1000, 999, 1023, 999, "plain"),
      Rec(TurnUp, 0, 0, 1, 1, "plain"),
      Rec(Toggle, 0, 0, 1, 1, "nothrough") }

DriverInit ==
    /\ build \in Builds
    /\ NoGrid
    /\ recs \in InputsFrom(DriverRecs)
    /\ input = [k \in 1 .. Len(recs) |-> Render(recs[k])]
    /\ pos = 0 /\ items = <<>> /\ pstate = "ready"
    /\ pc = "new" /\ applied = <<>> /\ result = -1

\* let mut grid = Grid::new(1000, 1000);
ANew ==
    /\ pc = "new"
    /\ LET g == GridNew(DriverWidth, DriverHeight)
       IN  /\ grid' = g.grid
           /\ width' = g.width
           /\ height' = g.height
           /\ gstate' = IF g.ok THEN "live" ELSE "failed"
           /\ pc' = IF g.ok THEN "loop" ELSE "panicked"
    /\ logicalW' = DriverWidth
    /\ logicalH' = DriverHeight
    /\ call' = [NoCall EXCEPT !.fn = "new", !.x2 = DriverWidth, !.y2 = DriverHeight]
    /\ UNCHANGED <<build, prevGrid, ref, nUpdates, parserVars, applied, result>>

\* The match of a(): the Op of an item's first field, "" for the unreachable arm.
OpOf(name) ==
    CASE name = TurnOn  -> "On"
      [] name = TurnOff -> "Off"
      [] name = Toggle  -> "Toggle"
      [] OTHER          -> ""

\* One turn of the for loop: the iterator's next, then the update of its item.
AIter ==
    /\ pc = "loop"
    /\ ParserAdvance
    /\ IF pstate' = "exhausted"
       THEN /\ pc' = "count"
            /\ UNCHANGED <<grid, gstate, call, applied>>
       ELSE IF pstate' = "panicked"
       THEN /\ pc' = "panicked"
            /\ UNCHANGED <<grid, gstate, call, applied>>
       ELSE LET it == items'[Len(items')]
                op == OpOf(it[1])
            IN  IF op = ""
                THEN /\ pc' = "panicked"
                     /\ UNCHANGED <<grid, gstate, call, applied>>
                ELSE LET u == GridUpdate(grid, width, height, op,
                                         it[2], it[3], it[4], it[5])
                     IN  /\ grid' = u.grid
                         /\ gstate' = IF u.panicked THEN "panicked" ELSE "live"
                         /\ pc' = IF u.panicked THEN "panicked" ELSE "loop"
                         /\ call' = [fn |-> "update", op |-> op, x1 |-> it[2],
                                     y1 |-> it[3], x2 |-> it[4], y2 |-> it[5]]
                         /\ applied' = Append(applied, pos')
    /\ UNCHANGED <<build, width, height, logicalW, logicalH, prevGrid, ref,
                   nUpdates, input, recs, result>>

\* grid.count(), the value a() returns.
ACount ==
    /\ pc = "count"
    /\ result' = GridCount(grid)
    /\ pc' = "done"
    /\ UNCHANGED <<build, gridVars, parserVars, applied>>

DriverNext == ANew \/ AIter \/ ACount

DriverSpec == DriverInit /\ [][DriverNext]_vars

\* ---------------------------------------------------- the grid's properties

\* Cell (x, y) of the storage: bit x % 128 of word y * word_width + x / 128.
Cell(g, ww, x, y) == (x % BITS) \in g[y * ww + x \div BITS]

\* What op makes of a cell's old value.
OpOn(op, old) ==
    CASE op = "On" -> TRUE [] op = "Off" -> FALSE [] op = "Toggle" -> ~old

InRect(c, x, y) == c.x1 <= x /\ x < c.x2 /\ c.y1 <= y /\ y < c.y2

\* The last call was update on an in-bounds, non-empty rectangle.
InBoundsCall ==
    /\ call.fn = "update"
    /\ 0 <= call.x1 /\ call.x1 < call.x2 /\ call.x2 <= logicalW
    /\ 0 <= call.y1 /\ call.y1 < call.y2 /\ call.y2 <= logicalH

\* The smallest k with k * b >= a.
CeilDiv(a, b) == CHOOSE k \in 0 .. a : k * b >= a /\ (k - 1) * b < a

\* C1: an update over an in-bounds, non-empty rectangle completes, and every
\* cell of the rectangle then holds op applied to its old value, whatever the
\* grid's width (a multiple of 128 included).
C1_InBoundsUpdateApplies ==
    InBoundsCall =>
        /\ gstate = "live"
        /\ \A x \in 0 .. (logicalW - 1), y \in 0 .. (logicalH - 1) :
              InRect(call, x, y) =>
                  Cell(grid, width, x, y) = OpOn(call.op, Cell(prevGrid, width, x, y))

\* C2: an update whose rectangle lies partly or wholly outside the grid leaves
\* every in-bounds cell outside the rectangle as it was.
C2_OutsideRectangleUntouched ==
    (call.fn = "update" /\ ~InBoundsCall) =>
        \A x \in 0 .. (logicalW - 1), y \in 0 .. (logicalH - 1) :
            ~InRect(call, x, y) =>
                Cell(grid, width, x, y) = Cell(prevGrid, width, x, y)

\* C3: update never fails: every index y_index + x_index it uses is below
\* word_width * height.
C3_UpdateIndicesInStorage ==
    call.fn = "update" =>
        /\ gstate = "live"
        /\ \A a \in Accesses(width, height, call.x1, call.y1, call.x2, call.y2) :
              a[1] + a[2] < width * height

\* C4: count() is the number of lit cells of the per-cell reference, never more
\* than W * H, and (x2 - x1) * (y2 - y1) after one On over an in-bounds
\* rectangle of a fresh grid.
C4_CountMatchesReference ==
    gstate = "live" =>
        /\ GridCount(grid) = Cardinality(ref)
        /\ GridCount(grid) <= logicalW * logicalH
        /\ (InBoundsCall /\ nUpdates = 1 /\ call.op = "On") =>
              GridCount(grid) = (call.x2 - call.x1) * (call.y2 - call.y1)

\* C5: Toggle over a rectangle, applied twice in succession, restores the
\* storage: after a first Toggle(R) both calls complete and the second leaves
\* the storage the first one found.
C5_ToggleTwiceRestores ==
    (call.fn = "update" /\ call.op = "Toggle") =>
        /\ gstate = "live"
        /\ LET again == GridUpdate(grid, width, height, "Toggle",
                                   call.x1, call.y1, call.x2, call.y2)
           IN  ~again.panicked /\ again.grid = prevGrid

\* C6: Grid::new fails on a zero width or height; otherwise the grid starts
\* with every bit cleared and a count of 0, its storage holds exactly
\* ceil(width / 128) * height words, and no update changes that length.
C6_NewAndStorageLength ==
    /\ (call.fn = "new" /\ (logicalW = 0 \/ logicalH = 0)) => gstate = "failed"
    /\ (call.fn = "new" /\ logicalW > 0 /\ logicalH > 0) =>
          /\ gstate = "live"
          /\ \A i \in DOMAIN grid : grid[i] = {}
          /\ GridCount(grid) = 0
    /\ gstate \in {"live", "panicked"} =>
          /\ logicalW > 0 /\ logicalH > 0
          /\ VecLen(grid) = CeilDiv(logicalW, BITS) * logicalH
          /\ DOMAIN grid = 0 .. (VecLen(grid) - 1)

\* C6's case: a one-word-wide grid (width exactly 128) after an update that
\* changed its storage.
C6_Witness ==
    /\ gstate = "live" /\ logicalW = BITS /\ call.fn = "update" /\ grid # prevGrid

\* -------------------------------------------------- the parser's properties

\* The item the claims expect of a line: the start kept, each end plus 1.
Expected(r) == <<r.op, r.x1, r.y1, r.x2 + 1, r.y2 + 1>>

AllInGrammar == \A k \in 1 .. Len(recs) : InGrammar(recs[k])

\* One item per consumed line, in input order, each the expected one; no
\* panic; None only after the last line.
ItemsFollowLines ==
    /\ pstate # "panicked"
    /\ Len(items) = pos
    /\ \A k \in 1 .. Len(items) : items[k] = Expected(recs[k])
    /\ pstate = "exhausted" => pos = Len(input)

\* C7 as stated: for an input whose lines all match the grammar the iterator
\* yields one item per line, in order, the k-th being (op, x1, y1, x2 + 1,
\* y2 + 1) of line k, then None.
C7_OneItemPerGrammarLine == AllInGrammar => ItemsFollowLines

\* C7 as amended: the same, for inputs whose lines match the grammar and whose
\* coordinates fit usize together with each end coordinate plus 1.
C7_OneItemPerRepresentableLine ==
    (AllInGrammar /\ \A k \in 1 .. Len(recs) : Representable(recs[k]))
        => ItemsFollowLines

\* C7's case: two lines in range, one with leading zeros and one ending at
\* usize::MAX - 1, both yielded and None returned after them.
C7_Witness ==
    /\ pc = "idle" /\ pstate = "exhausted" /\ Len(items) = 2
    /\ recs[1].form = "zeros" /\ recs[2].x2 = UsizeMax - 1
    /\ items[2][4] = UsizeMax

\* C8 as stated: every instruction produced from a line of the grammar has
\* x1 <= x2 and y1 <= y2, a textual end below the start included.
C8_EndsNotBelowStarts ==
    \A k \in 1 .. Len(items) :
        InGrammar(recs[k]) => items[k][2] <= items[k][4] /\ items[k][3] <= items[k][5]

\* C8 as amended: an instruction produced from a line of the grammar whose
\* textual end coordinates are not below its start coordinates, and are below
\* usize::MAX, has x1 < x2 and y1 < y2 (so x1 <= x2 and y1 <= y2).
C8_OrderedLinesGiveOrderedEnds ==
    \A k \in 1 .. Len(items) :
        (/\ InGrammar(recs[k])
         /\ recs[k].x1 <= recs[k].x2 /\ recs[k].x2 < UsizeMax
         /\ recs[k].y1 <= recs[k].y2 /\ recs[k].y2 < UsizeMax)
            => items[k][2] < items[k][4] /\ items[k][3] < items[k][5]

\* C8's case: the one-cell rectangle "turn off 3,3 through 3,3" was parsed.
C8_Witness ==
    /\ pc = "idle"
    /\ \E k \in 1 .. Len(items) :
          /\ recs[k].x1 = recs[k].x2 /\ recs[k].y1 = recs[k].y2
          /\ items[k] = <<TurnOff, 3, 3, 4, 4>>

\* A coordinate of the record does not fit usize, or an end plus 1 does not.
Overflows(r) == ~Representable(r)

\* C9: a line with a coordinate that overflows (the textual value past
\* usize::MAX, or an end equal to usize::MAX) makes the parser fail and yields
\* no instruction, and no yielded instruction has an exclusive end other than
\* the textual end plus 1.
C9_OverflowRejected ==
    /\ \A k \in 1 .. pos :
          (InGrammar(recs[k]) /\ Overflows(recs[k])) =>
              (Len(items) < k /\ pstate = "panicked")
    /\ \A k \in 1 .. Len(items) :
          items[k][4] = recs[k].x2 + 1 /\ items[k][5] = recs[k].y2 + 1

\* -------------------------------------------------- the driver's properties

\* The first line that is not of the grammar (0: there is none).
FirstBad ==
    LET bad == {k \in 1 .. Len(recs) : ~InGrammar(recs[k])}
    IN  IF bad = {} THEN 0 ELSE SetMin(bad)

\* C10: a() applies the instructions in line order; at the first line k that
\* is not of the grammar the run ends with no instruction of line k or later
\* applied and no count returned; if every line is of the grammar the run
\* does not end early and returns count() after all instructions.
C10_DriverOrderAndAbort ==
    /\ \A k \in 1 .. Len(applied) : applied[k] = k
    /\ FirstBad # 0 => (result = -1 /\ Len(applied) < FirstBad)
    /\ FirstBad = 0 =>
          /\ pc # "panicked"
          /\ pc = "done" => (result = GridCount(grid) /\ Len(applied) = Len(input))

====
